---- MODULE Spec2Model ----
(***************************************************************************)
(* A model of src/mapview.py, the Streamlit dashboard of the APCAC layers. *)
(*                                                                         *)
(* Text is modelled as a sequence of atoms.  Where the code inspects       *)
(* single characters (SQL LIKE, int(), the hex format) an atom is one      *)
(* character; where it only tests for fixed substrings or splits on one    *)
(* character (the rule filters, the legend labels, the popup text) an atom *)
(* is either that character or a chunk of text that holds none of them.    *)
(* Python's None is the empty sequence <<>> and a value v that may be None *)
(* is <<v>>.  A dict is the sequence of its items in insertion order.      *)
(***************************************************************************)
EXTENDS Integers, Sequences, FiniteSets, TLC

VARIABLES
    readable,         \* per data file, whether reading it succeeds (else it raises)
    catalog,          \* rows (type, name) of sqlite_master in apcac.gpkg
    qml_doc,          \* the parsed content of apcac.qml: rules and symbols
    cache_layers,     \* st.cache_data of get_available_layers
    cache_style,      \* st.cache_data of parse_qml_style
    cache_stats,      \* st.cache_data of load_apcac_statistics
    cache_layer,      \* st.cache_data of load_specific_layer, per layer_name
    pc,               \* position of the script run
    run,              \* number of script runs started
    available_layers, \* main: available_layers
    style_map,        \* main: style_map
    color_map,        \* parse_qml_style: color_map of the last parse
    df_stats,         \* main: df_stats
    selected_layer,   \* main: selected_layer
    gdf,              \* main: gdf
    map_data,         \* main: map_data, <<>> while the name is unbound
    folium_map,       \* the map built by create_folium_map
    legend,           \* the categories built by create_legend
    charts,           \* the figures built by create_statistics_charts
    panel,            \* what the feature-attribute panel shows
    messages,         \* st.error / st.warning / st.info texts of this run
    widget,           \* the user's choice in the layer selectbox
    clicked,          \* popup text of the last clicked feature (st_folium)
    clicked_feature,  \* the feature the user clicked last: its layer, row and run
    outcome,          \* per cached operation, how this run obtained its result
    observed,         \* per cached operation, whether its file was readable when called
    prev_outcome,     \* outcome of the previous run
    execs             \* how often each stage's body ran, per argument tuple

vars == <<readable, catalog, qml_doc, cache_layers, cache_style, cache_stats,
          cache_layer, pc, run, available_layers, style_map, color_map,
          df_stats, selected_layer, gdf, map_data, folium_map, legend, charts,
          panel, messages, widget, clicked, clicked_feature, outcome, observed,
          prev_outcome, execs>>

envVars     == <<readable, catalog, qml_doc>>
cacheVars   == <<cache_layers, cache_style, cache_stats, cache_layer>>
sessionVars == <<widget, clicked, clicked_feature>>
ghostVars   == <<outcome, observed, prev_outcome, execs>>
outVars     == <<folium_map, legend, charts, panel>>

--------------------------------------------------------------------------
(* Bounds of the model *)

MaxTables  == 3   \* rows of sqlite_master drawn for the layer listing
MaxRules   == 2   \* rule elements of a style descriptor
MaxSymbols == 1   \* symbol elements of a style descriptor
MaxEntries == 2   \* entries of a StyleMap drawn for the legend and the map
MaxFeats   == 2   \* features of a layer drawn for the map
MaxRows    == 3   \* rows of a statistics table
MaxRuns    == 3   \* script runs of one session

--------------------------------------------------------------------------
(* Text *)

None == <<>>
Some(v) == <<v>>

Contains(s, a) == \E i \in 1..Len(s) : s[i] = a

\* str.split(sep) for a one-atom separator: the pieces between the separators
RECURSIVE Split(_, _)
Split(s, sep) ==
    IF ~Contains(s, sep) THEN <<s>>
    ELSE LET i == CHOOSE k \in 1..Len(s) :
                      s[k] = sep /\ \A j \in 1..(k - 1) : s[j] # sep
         IN  <<SubSeq(s, 1, i - 1)>> \o Split(SubSeq(s, i + 1, Len(s)), sep)

\* str.strip(): drop the blanks at both ends
RECURSIVE Strip(_)
Strip(s) ==
    IF s = <<>> THEN s
    ELSE IF Head(s) = " " THEN Strip(Tail(s))
    ELSE IF s[Len(s)] = " " THEN Strip(SubSeq(s, 1, Len(s) - 1))
    ELSE s

\* str.replace(a, ""): drop every occurrence of the atom a
Remove(s, a) == SelectSeq(s, LAMBDA x : x # a)

StartsWith(s, p) == Len(s) >= Len(p) /\ SubSeq(s, 1, Len(p)) = p
EndsWith(s, p) == Len(s) >= Len(p) /\ SubSeq(s, Len(s) - Len(p) + 1, Len(s)) = p

\* all sequences over S of length at most n
SeqsUpTo(S, n) == UNION {[1..k -> S] : k \in 0..n}

--------------------------------------------------------------------------
(* get_available_layers: the SELECT over sqlite_master *)

Uppers == <<"A", "B", "C", "H", "K", "N", "O", "P", "X">>
Lowers == <<"a", "b", "c", "h", "k", "n", "o", "p", "x">>

\* SQLite folds ASCII letters before LIKE compares them
Lower(c) ==
    IF \E i \in 1..Len(Uppers) : Uppers[i] = c
    THEN Lowers[CHOOSE i \in 1..Len(Uppers) : Uppers[i] = c]
    ELSE c

\* SQLite's LIKE: % is any run of characters, _ is any one character
RECURSIVE LikeMatch(_, _)
LikeMatch(pat, s) ==
    IF pat = <<>> THEN s = <<>>
    ELSE IF Head(pat) = "%"
         THEN LikeMatch(Tail(pat), s) \/ (s # <<>> /\ LikeMatch(pat, Tail(s)))
    ELSE /\ s # <<>>
         /\ (Head(pat) = "_" \/ Lower(Head(pat)) = Lower(Head(s)))
         /\ LikeMatch(Tail(pat), Tail(s))

LikeApcac    == <<"a", "p", "c", "a", "c", "_", "%">>
NotLikeBho5k == <<"%", "_", "b", "h", "o", "5", "k">>

SelectsRow(row) ==
    /\ row.type = "table"
    /\ LikeMatch(LikeApcac, row.name)
    /\ ~LikeMatch(NotLikeBho5k, row.name)

RowName(row) == row.name

Names(rows) == [i \in 1..Len(rows) |-> RowName(rows[i])]

\* A call returns the value, the messages it reported and whether an
\* exception left the function.
Returned(v, msgs) == [ret |-> v, msgs |-> msgs, raised |-> FALSE]

get_available_layers(ok, rows) ==
    IF ok
    THEN Returned(Names(SelectSeq(rows, SelectsRow)), <<>>)
    ELSE Returned(<<>>, <<"Erro ao listar camadas">>)

--------------------------------------------------------------------------
(* parse_qml_style *)

DefaultColor == <<"#", "8", "0", "8", "0", "8", "0">>

Digits   == <<"0", "1", "2", "3", "4", "5", "6", "7", "8", "9">>
HexChars == Digits \o <<"a", "b", "c", "d", "e", "f">>

IsDigit(c) == \E i \in 1..Len(Digits) : Digits[i] = c
DigitVal(c) == (CHOOSE i \in 1..Len(Digits) : Digits[i] = c) - 1

RECURSIVE Decimal(_)
Decimal(s) ==
    IF s = <<>> THEN 0
    ELSE 10 * Decimal(SubSeq(s, 1, Len(s) - 1)) + DigitVal(s[Len(s)])

\* int(x): blanks stripped, an optional sign, then one or more digits;
\* anything else is a ValueError (ok = FALSE)
IntOf(x) ==
    LET t == Strip(x)
        signed == t # <<>> /\ Head(t) \in {"-", "+"}
        body == IF signed THEN Tail(t) ELSE t
    IN  IF body # <<>> /\ \A i \in 1..Len(body) : IsDigit(body[i])
        THEN [ok |-> TRUE,
              val |-> IF signed /\ Head(t) = "-" THEN 0 - Decimal(body)
                      ELSE Decimal(body)]
        ELSE [ok |-> FALSE, val |-> 0]

RECURSIVE HexOf(_)
HexOf(n) ==
    IF n < 16 THEN <<HexChars[n + 1]>>
    ELSE HexOf(n \div 16) \o <<HexChars[(n % 16) + 1]>>

\* format(n, "02x"): lower-case hex, zero-filled to two places, sign included
Format02x(n) ==
    IF n < 0 THEN <<"-">> \o HexOf(0 - n)
    ELSE IF n < 16 THEN <<"0">> \o HexOf(n)
    ELSE HexOf(n)

\* lines 89-94: the RGBA value of a symbol to a hex colour
HexColor(color_value) ==
    LET parts == Split(color_value, ",")
        rgba == [i \in 1..Len(parts) |-> IntOf(parts[i])]
    IN  IF (\A i \in 1..Len(rgba) : rgba[i].ok) /\ Len(rgba) >= 3
        THEN <<"#">> \o Format02x(rgba[1].val) \o Format02x(rgba[2].val)
                     \o Format02x(rgba[3].val)
        ELSE DefaultColor

\* dict[key] = val on a dict kept as the sequence of its items
HasKey(d, k) == \E i \in 1..Len(d) : d[i].key = k
Lookup(d, k) == d[CHOOSE i \in 1..Len(d) : d[i].key = k].val
Put(d, k, v) ==
    IF HasKey(d, k)
    THEN [i \in 1..Len(d) |-> IF d[i].key = k THEN [key |-> k, val |-> v] ELSE d[i]]
    ELSE Append(d, [key |-> k, val |-> v])
Keys(d) == {d[i].key : i \in 1..Len(d)}

\* line 73: the text between the first two quotes of the filter
FilterCode(filter_attr) ==
    IF Contains(filter_attr, "'") THEN Split(filter_attr, "'")[2] ELSE <<>>

\* lines 66-78
RECURSIVE RuleEntries(_, _)
RuleEntries(d, rules) ==
    IF rules = <<>> THEN d
    ELSE LET rule == Head(rules)
             code == FilterCode(rule.filter)
         IN  RuleEntries(
                 IF Contains(rule.filter, "cd_apcac") /\ code # <<>>
                 THEN Put(d, code, [label |-> rule.label, symbol |-> rule.symbol])
                 ELSE d,
                 Tail(rules))

\* lines 81-94
RECURSIVE SymbolColors(_, _)
SymbolColors(d, symbols) ==
    IF symbols = <<>> THEN d
    ELSE LET symbol == Head(symbols)
         IN  SymbolColors(
                 IF symbol.color # None /\ symbol.color[1] # <<>>
                 THEN Put(d, symbol.name, HexColor(symbol.color[1]))
                 ELSE d,
                 Tail(symbols))

\* lines 97-102
WithColors(d, colors) ==
    [i \in 1..Len(d) |->
        [key |-> d[i].key,
         val |-> [label |-> d[i].val.label,
                  symbol |-> d[i].val.symbol,
                  color |-> IF HasKey(colors, d[i].val.symbol)
                            THEN Lookup(colors, d[i].val.symbol)
                            ELSE DefaultColor]]]

ColorMapOf(doc) == SymbolColors(<<>>, doc.symbols)
StyleMapOf(doc) == WithColors(RuleEntries(<<>>, doc.rules), ColorMapOf(doc))

\* doc is None when ET.parse fails on the file
parse_qml_style(ok, doc) ==
    IF ok /\ doc # None
    THEN Returned(StyleMapOf(doc[1]), <<>>)
    ELSE Returned(<<>>, <<"Erro ao carregar estilos QML">>)

--------------------------------------------------------------------------
(* load_apcac_statistics and load_specific_layer.  A table is the sequence *)
(* of its rows; a layer is its column names and its rows, a row being a    *)
(* function from the column names to values.                               *)

\* a missing attribute value (None in the frame, null in the GeoJSON)
NoValue == <<"<None>">>

load_apcac_statistics(ok, table) ==
    IF ok
    THEN Returned(Some(table), <<>>)
    ELSE Returned(None, <<"Erro ao carregar estatísticas">>)

\* load_specific_layer without its try/except: a failed read leaves the function
load_specific_layer_uncaught(ok, layers, layer_name) ==
    IF ok /\ \E l \in layers : l.name = layer_name
    THEN Returned(Some((CHOOSE l \in layers : l.name = layer_name).data), <<>>)
    ELSE [ret |-> None, msgs |-> <<>>, raised |-> TRUE]

\* layers is the content of the package: the set of (name, data) it holds
load_specific_layer(ok, layers, layer_name) ==
    IF ok /\ \E l \in layers : l.name = layer_name
    THEN Returned(Some((CHOOSE l \in layers : l.name = layer_name).data), <<>>)
    ELSE Returned(None, <<"Erro ao carregar camada">>)

\* DataFrame.empty
Empty(frame) == frame.rows = <<>> \/ frame.columns = <<>>

\* geometry.simplify(tolerance, preserve_topology=True)
Simplified(geometry, tolerance) == geometry \o <<"simplify", tolerance>>

simplify_geodataframe(g, tolerance) ==
    IF g # None /\ ~Empty(g[1])
    THEN Some([columns |-> g[1].columns,
               rows |-> [i \in 1..Len(g[1].rows) |->
                            [g[1].rows[i] EXCEPT
                                !["geometry"] = Simplified(@, tolerance)]]])
    ELSE g

--------------------------------------------------------------------------
(* create_folium_map *)

possible_cols == <<"cd_apcac", "apcac", "codigo", "class">>

\* lines 175-180: the first of possible_cols that is a column, or None
ApcacCol(columns) ==
    LET found == {k \in 1..Len(possible_cols) :
                      \E i \in 1..Len(columns) : columns[i] = possible_cols[k]}
    IN  IF found = {} THEN None
        ELSE Some(possible_cols[CHOOSE k \in found : \A j \in found : k <= j])

\* GeoDataFrame.to_json: the properties of a feature are its columns but geometry
Properties(row) == [c \in (DOMAIN row) \ {"geometry"} |-> row[c]]

\* dict.get(key, default)
Get(properties, key, default) ==
    IF key \in DOMAIN properties THEN properties[key] ELSE default

\* style_function without the lookup of the class code: every fill is the default
style_function_gray(properties, apcac_col, styles) ==
    [fillColor |-> DefaultColor, color |-> "#333333", weight |-> "0.3",
     fillOpacity |-> "0.6", opacity |-> "0.8"]

\* lines 184-198
style_function(properties, apcac_col, styles) ==
    LET apcac_code == Get(properties, apcac_col, <<>>)
    IN  [fillColor |-> IF HasKey(styles, apcac_code)
                       THEN Lookup(styles, apcac_code).color
                       ELSE DefaultColor,
         color |-> "#333333",
         weight |-> "0.3",
         fillOpacity |-> "0.6",
         opacity |-> "0.8"]

\* lines 229-234
plain_style(properties) ==
    [fillColor |-> "#3388ff", color |-> "#333333", weight |-> "0.3",
     fillOpacity |-> "0.5"]

\* what a tooltip or popup shows for a feature: its aliases and field values
Shown(properties, fields, aliases) ==
    [i \in 1..Len(fields) |->
        [alias |-> aliases[i],
         value |-> IF properties[fields[i]] = NoValue THEN <<"null">>
                   ELSE properties[fields[i]]]]

\* lines 169-236: the overlay of a layer that is not empty
Overlay(frame, styles) ==
    LET apcac_col == ApcacCol(frame.columns)
        props == [i \in 1..Len(frame.rows) |-> Properties(frame.rows[i])]
    IN  IF apcac_col # None
        THEN LET tooltip_fields == <<apcac_col[1]>>
                 tooltip_aliases == <<"APCAC:">>
             IN  [name |-> "APCAC",
                  features |-> [i \in 1..Len(props) |->
                      [properties |-> props[i],
                       geometry |-> frame.rows[i]["geometry"],
                       style |-> style_function(props[i], apcac_col[1], styles),
                       tooltip |-> Some(Shown(props[i], tooltip_fields, tooltip_aliases)),
                       popup |-> Some(Shown(props[i], tooltip_fields, tooltip_aliases))]]]
        ELSE [name |-> "Dados APCAC",
              features |-> [i \in 1..Len(props) |->
                  [properties |-> props[i],
                   geometry |-> frame.rows[i]["geometry"],
                   style |-> plain_style(props[i]),
                   tooltip |-> None,
                   popup |-> None]]]

\* lines 130-246
create_folium_map(g, styles) ==
    LET some == g # None /\ ~Empty(g[1])
    IN  [location |-> IF some THEN "centre of total_bounds" ELSE "-15.7801, -47.9292",
         tiles |-> <<"National Geographic", "Terrain">>,
         overlay |-> IF some
                     THEN Some(Overlay(simplify_geodataframe(g, "0.001")[1], styles))
                     ELSE None,
         fit_bounds |-> some,
         layer_control |-> TRUE]

--------------------------------------------------------------------------
(* create_legend *)

CategoryNames == <<"Natural - Alto Risco", "Natural - Sem Risco",
                   "Antrópica - Alto Risco", "Antrópica - Sem Risco">>

\* categories[name].append(item)
AppendTo(categories, name, item) ==
    [categories EXCEPT ![name] = Append(@, item)]

\* Categorize with the second test written as "if" for "elif": a label of
\* natural predominance and high risk is appended to two categories
Categorize_if(categories, item) ==
    LET label == item.val.label
        entry == [code |-> item.key, label |-> label, color |-> item.val.color]
        first == IF Contains(label, "Predominância natural") /\ Contains(label, "alto risco")
                 THEN AppendTo(categories, "Natural - Alto Risco", entry)
                 ELSE categories
    IN  IF Contains(label, "Predominância natural")
        THEN AppendTo(first, "Natural - Sem Risco", entry)
        ELSE IF Contains(label, "Predominância antrópica") /\ Contains(label, "alto risco")
        THEN AppendTo(first, "Antrópica - Alto Risco", entry)
        ELSE IF Contains(label, "Predominância antrópica")
        THEN AppendTo(first, "Antrópica - Sem Risco", entry)
        ELSE first

\* lines 266-273, for one item of the style map
Categorize(categories, item) ==
    LET label == item.val.label
        entry == [code |-> item.key, label |-> label, color |-> item.val.color]
    IN  IF Contains(label, "Predominância natural") /\ Contains(label, "alto risco")
        THEN AppendTo(categories, "Natural - Alto Risco", entry)
        ELSE IF Contains(label, "Predominância natural")
        THEN AppendTo(categories, "Natural - Sem Risco", entry)
        ELSE IF Contains(label, "Predominância antrópica") /\ Contains(label, "alto risco")
        THEN AppendTo(categories, "Antrópica - Alto Risco", entry)
        ELSE IF Contains(label, "Predominância antrópica")
        THEN AppendTo(categories, "Antrópica - Sem Risco", entry)
        ELSE categories

\* lines 262-273
RECURSIVE Categories(_, _)
Categories(categories, items) ==
    IF items = <<>> THEN categories
    ELSE Categories(Categorize(categories, Head(items)), Tail(items))

\* line 284: the text shown next to the code
LegendText(label) ==
    IF Contains(label, " - ") THEN Split(label, " - ")[2] ELSE label

\* lines 248-290: the categories and the lines written to the sidebar
create_legend(styles) ==
    IF styles # <<>>
    THEN LET categories ==
                 Categories([n \in {CategoryNames[k] : k \in 1..4} |-> <<>>], styles)
         IN  [categories |-> categories,
              sidebar |-> SelectSeq(
                  [k \in 1..4 |->
                      [category |-> CategoryNames[k],
                       lines |-> [i \in 1..Len(categories[CategoryNames[k]]) |->
                           [code |-> categories[CategoryNames[k]][i].code,
                            color |-> categories[CategoryNames[k]][i].color,
                            text |-> LegendText(categories[CategoryNames[k]][i].label)]]]],
                  LAMBDA c : c.lines # <<>>)]
    ELSE [categories |-> [n \in {} |-> <<>>],
          sidebar |-> <<"Legenda não disponível">>]

--------------------------------------------------------------------------
(* create_statistics_charts *)

Metrics == <<"bio_area_km2", "bio_area_km2_p", "zhi_area_km2", "zhi_area_km2_p">>

\* the class codes of the rows, each once, in order of first appearance:
\* px.bar(color='cd_apcac') makes one trace and one x category for each
RECURSIVE Codes(_)
Codes(rows) ==
    IF rows = <<>> THEN <<>>
    ELSE LET rest == Codes(SubSeq(rows, 1, Len(rows) - 1))
             code == rows[Len(rows)]["cd_apcac"]
         IN  IF Contains(rest, code) THEN rest ELSE Append(rest, code)

\* the height of the bar of a category: the sum of its rows' values
RECURSIVE Total(_, _, _)
Total(rows, code, metric) ==
    IF rows = <<>> THEN 0
    ELSE (IF Head(rows)["cd_apcac"] = code THEN Head(rows)[metric] ELSE 0)
         + Total(Tail(rows), code, metric)

\* the x axis without a categoryorder: the categories stay in trace order
TraceOrder(bars) == bars

\* xaxis categoryorder 'total descending': a stable sort, largest total first
RECURSIVE TotalDescending(_)
TotalDescending(bars) ==
    IF bars = <<>> THEN <<>>
    ELSE LET sorted == TotalDescending(SubSeq(bars, 1, Len(bars) - 1))
             bar == bars[Len(bars)]
             k == Cardinality({i \in 1..Len(sorted) : sorted[i].total >= bar.total})
         IN  SubSeq(sorted, 1, k) \o <<bar>> \o SubSeq(sorted, k + 1, Len(sorted))

\* lines 303-310 and the color_discrete_map of each figure
BarColor(code, styles) ==
    IF HasKey(styles, code) THEN Lookup(styles, code).color ELSE DefaultColor

\* one px.bar figure with its update_layout
Figure(rows, styles, metric, yaxis_title) ==
    LET codes == Codes(rows)
    IN  [x |-> "cd_apcac",
         y |-> metric,
         bars |-> TotalDescending(
                      [i \in 1..Len(codes) |->
                          [code |-> codes[i],
                           total |-> Total(rows, codes[i], metric),
                           color |-> BarColor(codes[i], styles)]]),
         showlegend |-> FALSE,
         xaxis_title |-> "Classe APCAC",
         yaxis_title |-> yaxis_title]

\* lines 292-389
create_statistics_charts(df, styles) ==
    IF df = None \/ df[1] = <<>>
    THEN [figures |-> <<>>, warning |-> <<"Dados de estatísticas não disponíveis">>]
    ELSE [figures |-> <<Figure(df[1], styles, Metrics[1], "Área (km²)"),
                        Figure(df[1], styles, Metrics[2], "Porcentagem (%)"),
                        Figure(df[1], styles, Metrics[3], "Área (km²)"),
                        Figure(df[1], styles, Metrics[4], "Porcentagem (%)")>>,
          warning |-> <<>>]

--------------------------------------------------------------------------
(* Inputs the specifications draw from *)
Nunivotto3 == <<"a", "p", "c", "a", "c", "_", "n", "u", "n", "i", "v", "o", "t", "t", "o", "3">>
Nunivotto3Bho5k == <<"a", "p", "c", "a", "c", "_", "n", "u", "n", "i", "v", "o", "t", "t", "o", "3", "_", "b", "h", "o", "5", "k">>
OtherTable == <<"o", "t", "h", "e", "r", "_", "t", "a", "b", "l", "e">>
NoUnderscore == <<"a", "p", "c", "a", "c", "X", "n", "3">>
OtherSuffix == <<"a", "p", "c", "a", "c", "_", "n", "X", "b", "h", "o", "5", "k">>
UpperCase == <<"A", "P", "C", "A", "C", "_", "N", "4">>
PrefixOnly == <<"a", "p", "c", "a", "c", "_">>
Nunivotto4 == PrefixOnly \o <<"n", "u", "n", "i", "v", "o", "t", "t", "o", "4">>
Nunivotto5 == PrefixOnly \o <<"n", "u", "n", "i", "v", "o", "t", "t", "o", "5">>

Table(name) == [type |-> "table", name |-> name]

CatalogRows ==
    {Table(Nunivotto3), Table(Nunivotto3Bho5k), Table(OtherTable),
     Table(NoUnderscore), Table(OtherSuffix), Table(UpperCase),
     Table(PrefixOnly), [type |-> "index", name |-> Nunivotto3]}

\* rule filters, one atom per quote, column name or other chunk of text
Filters ==
    {<<"cd_apcac", " = ", "'", "IICN", "'">>,
     <<"cd_apcac", " = ", "'", "IIAN", "'">>,
     <<"cd_apcac", " = ", "'", "'">>,
     <<"cd_apcac", " = ", "IICN">>,
     <<"regiao", " = ", "'", "IICN", "'">>,
     <<>>,
     <<"regiao", " = ", "'", "N", "'", " AND ", "cd_apcac", " = ", "'", "IICN", "'">>,
     <<"'", "IICN", "'", " = ", "cd_apcac">>,
     <<"cd_apcac", " = ", "'", "IICN">>}

Rgba800000 == <<"1", "2", "8", ",", "0", ",", "0", ",", "2", "5", "5">>
Rgba000fff == <<"0", ",", "1", "5", ",", "2", "5", "5", ",", "0">>
RgbaBlank == <<" ", "1", ",", " ", "2", ",", "3", " ", ",", "2", "5", "5">>
ThreeChannels == <<"1", "2", "8", ",", "0", ",", "0">>
TwoChannels == <<"1", "2", "8", ",", "0">>
FiveChannels == <<"1", "2", "8", ",", "0", ",", "0", ",", "2", "5", "5", ",", "7">>
NotNumeric == <<"x", ",", "0", ",", "0", ",", "2", "5", "5">>
AlphaNotNumeric == <<"1", "2", "8", ",", "0", ",", "0", ",", "x">>
Fraction == <<"1", ".", "5", ",", "0", ",", "0", ",", "2", "5", "5">>
Channel256 == <<"2", "5", "6", ",", "0", ",", "0", ",", "2", "5", "5">>
ChannelNegative == <<"-", "1", ",", "0", ",", "0", ",", "2", "5", "5">>

\* the color option of a symbol: no Option element, an empty value, or a value
ColorOptions ==
    {None, Some(<<>>)} \cup
    {Some(v) : v \in {Rgba800000, Rgba000fff, RgbaBlank, ThreeChannels, TwoChannels,
                      FiveChannels, NotNumeric, AlphaNotNumeric, Fraction,
                      Channel256, ChannelNegative}}

SymbolNames == {"0", "1"}

LabelNaturalRisk == <<"Predominância natural", " - ", "IH alta", " - ", "alto risco">>

Rules == [filter : Filters, label : {LabelNaturalRisk}, symbol : SymbolNames]
Symbols == [name : SymbolNames, color : ColorOptions]

Descriptors ==
    {None} \cup
    {Some([rules |-> r, symbols |-> s]) :
        r \in SeqsUpTo(Rules, MaxRules), s \in SeqsUpTo(Symbols, MaxSymbols)}

\* style maps: items with distinct, non-empty keys
IICN == <<"IICN">>
IIAN == <<"IIAN">>
IICA == <<"IICA">>

Item(code, label, color) ==
    [key |-> code, val |-> [label |-> label, symbol |-> "0", color |-> color]]

DistinctKeys(d) == \A i, j \in 1..Len(d) : d[i].key = d[j].key => i = j

StyleMaps(codes, labels, colors) ==
    {d \in SeqsUpTo({Item(c, l, h) : c \in codes, l \in labels, h \in colors},
                    MaxEntries) : DistinctKeys(d)}

Red == HexColor(Rgba800000)

Labels ==
    {LabelNaturalRisk,
     <<"Predominância natural", " - ", "IH alta", " - ", "sem risco específico">>,
     <<"Predominância antrópica", " - ", "IH alta", " - ", "alto risco">>,
     <<"Predominância antrópica", " - ", "IH alta", " - ", "sem risco específico">>,
     <<"Sem classe">>,
     <<"Sem classe", " - ", "alto risco">>,
     <<"Predominância natural", " e ", "Predominância antrópica", " - ", "alto risco">>,
     <<"Predominância natural">>,
     <<"Predominância antrópica", " - ", "IH alta", " - ", "Alto Risco">>}

\* layers: the columns of a frame and the values a column can hold
ColumnLists ==
    {<<"cd_apcac", "area_km2", "geometry">>,
     <<"class", "area_km2", "geometry">>,
     <<"codigo", "cd_apcac", "geometry">>,
     <<"area_km2", "geometry">>}

ColumnSet(columns) == {columns[i] : i \in 1..Len(columns)}

ValuesOf(column) ==
    IF column = "geometry" THEN {<<"POLYGON">>}
    ELSE IF column = "area_km2" THEN {<<"1", "0">>}
    ELSE {IICN, IIAN, <<>>, NoValue}

RowsOf(columns) ==
    {r \in [ColumnSet(columns) -> UNION {ValuesOf(c) : c \in ColumnSet(columns)}] :
        \A c \in ColumnSet(columns) : r[c] \in ValuesOf(c)}

Frames ==
    UNION {{[columns |-> cs, rows |-> rs] : rs \in SeqsUpTo(RowsOf(cs), MaxFeats)} :
              cs \in ColumnLists}

\* statistics rows
StatRow(code, m) ==
    [c \in {"cd_apcac"} \cup {Metrics[k] : k \in 1..4} |->
        IF c = "cd_apcac" THEN code
        ELSE m[CHOOSE k \in 1..4 : Metrics[k] = c]]

MetricValues == {<<0, 0, 0, 0>>, <<1, 2, 0, 1>>, <<2, 1, 1, 0>>, <<1, 0, 2, 2>>}

StatRows == {StatRow(c, m) : c \in {IICN, IIAN, IICA}, m \in MetricValues}

Tables == SeqsUpTo(StatRows, MaxRows)

\* the files of the session: data/apcac/apcac.gpkg, apcac.qml and apcac.csv
GpkgCatalog ==
    <<Table(Nunivotto4), Table(Nunivotto3), Table(Nunivotto3Bho5k), Table(OtherTable)>>

Feature(code, area) ==
    [c \in {"cd_apcac", "area_km2", "geometry"} |->
        IF c = "cd_apcac" THEN code
        ELSE IF c = "area_km2" THEN area
        ELSE <<"POLYGON">>]

LayerColumns == <<"cd_apcac", "area_km2", "geometry">>

GpkgLayers ==
    {[name |-> Nunivotto3,
      data |-> [columns |-> LayerColumns,
                rows |-> <<Feature(IICN, <<"1", "0">>), Feature(IICN, <<"2", "5">>),
                           Feature(IIAN, <<"7">>)>>]],
     [name |-> Nunivotto4,
      data |-> [columns |-> LayerColumns, rows |-> <<>>]],
     [name |-> Nunivotto3Bho5k,
      data |-> [columns |-> LayerColumns, rows |-> <<Feature(IICN, <<"3">>)>>]]}

QmlDoc ==
    [rules |-> <<[filter |-> <<"cd_apcac", " = ", "'", "IICN", "'">>,
                  label |-> LabelNaturalRisk, symbol |-> "0"],
                 [filter |-> <<"cd_apcac", " = ", "'", "IIAN", "'">>,
                  label |-> <<"Predominância antrópica", " - ", "IH alta", " - ",
                              "sem risco específico">>,
                  symbol |-> "1"]>>,
     symbols |-> <<[name |-> "0", color |-> Some(Rgba800000)],
                   [name |-> "1", color |-> Some(Rgba000fff)]>>]

CsvTable == <<StatRow(IICN, <<1, 2, 0, 1>>), StatRow(IIAN, <<2, 1, 1, 0>>)>>

--------------------------------------------------------------------------
(* main: the steps of one script run *)

\* st.cache_data: the stored value and the st.error calls replayed with it
Entry(r) == [value |-> r.ret, msgs |-> r.msgs]

\* the read behind a call failed
Failed(r) == r.raised \/ r.msgs # <<>>

Traceback ==
    [layers |-> "exception in get_available_layers",
     style  |-> "exception in parse_qml_style",
     stats  |-> "exception in load_apcac_statistics",
     layer  |-> "exception in load_specific_layer"]

\* what a call through the cache leaves behind, for the ghost variables
How(hit, r) == IF hit THEN "hit" ELSE IF Failed(r) THEN "fail" ELSE "ok"
Seen(ok) == IF ok THEN "readable" ELSE "unreadable"

\* lines 439-445: the layer the selectbox starts on
DefaultLayer(layers) ==
    IF Contains(layers, Nunivotto3) THEN Nunivotto3
    ELSE IF Contains(layers, Nunivotto4) THEN Nunivotto4
    ELSE IF Contains(layers, Nunivotto5) THEN Nunivotto5
    ELSE layers[1]

\* the text of a popup as st_folium hands it back: "<alias> <value>" per field
RECURSIVE PopupText(_)
PopupText(shown) ==
    IF shown = <<>> THEN <<>>
    ELSE <<Head(shown).alias, " ">> \o Head(shown).value
         \o (IF Tail(shown) = <<>> THEN <<>> ELSE <<"\n">> \o PopupText(Tail(shown)))

\* lines 488-513
Summary(g) ==
    IF g # None /\ ~Empty(g[1])
    THEN LET col == ApcacCol(g[1].columns)
         IN  Some([polygons |-> Len(g[1].rows),
                   classes |-> IF col = None THEN None
                               ELSE Some(Cardinality(
                                        {g[1].rows[i][col[1]] : i \in 1..Len(g[1].rows)}
                                        \ {NoValue}))])
    ELSE None

\* lines 556-566: the attributes of the first row with this class code
RowAttributes(frame, apcac_col, apcac_code) ==
    LET matching == {i \in 1..Len(frame.rows) : frame.rows[i][apcac_col] = apcac_code}
    IN  IF matching = {} THEN <<>>
        ELSE LET row == frame.rows[CHOOSE i \in matching : \A j \in matching : i <= j]
                 shown == SelectSeq(frame.columns,
                              LAMBDA c : /\ c # apcac_col
                                         /\ c # "geometry"
                                         /\ row[c] # NoValue
                                         /\ Strip(row[c]) # <<>>)
             IN  [k \in 1..Len(shown) |-> [column |-> shown[k], value |-> row[shown[k]]]]

\* lines 520-572, with map_data bound
FeaturePanel(data, g, styles) ==
    LET popup_content == data.last_object_clicked_popup
    IN  IF popup_content # None /\ popup_content[1] # <<>>
        THEN IF Contains(popup_content[1], "APCAC:")
             THEN LET apcac_code == Strip(Remove(popup_content[1], "APCAC:"))
                  IN  IF apcac_code # <<>>
                      THEN [shown |-> Some(
                               [code |-> apcac_code,
                                style |-> IF HasKey(styles, apcac_code)
                                          THEN Some(Lookup(styles, apcac_code))
                                          ELSE None,
                                attributes |->
                                    IF g # None /\ ApcacCol(g[1].columns) # None
                                    THEN RowAttributes(g[1], ApcacCol(g[1].columns)[1],
                                                       apcac_code)
                                    ELSE <<>>]),
                            info |-> <<>>]
                      ELSE [shown |-> None, info |-> <<"Código APCAC não encontrado">>]
             ELSE [shown |-> None, info |-> <<"Dados do popup não reconhecidos">>]
        ELSE [shown |-> None,
              info |-> <<"Clique em uma área no mapa para ver seus atributos">>]

--------------------------------------------------------------------------
(* Specifications *)

Files == {"gpkg", "qml", "csv"}
Ops == {"layers", "style", "stats", "layer"}

NoCache == /\ cache_layers = None
           /\ cache_style = None
           /\ cache_stats = None
           /\ cache_layer = {}

NoLocals == /\ available_layers = <<>>
            /\ style_map = <<>>
            /\ color_map = <<>>
            /\ df_stats = None
            /\ selected_layer = None
            /\ gdf = None
            /\ map_data = None
            /\ messages = <<>>

NoOutputs == /\ folium_map = None
             /\ legend = None
             /\ charts = None
             /\ panel = None

NoSession == /\ widget = None
             /\ clicked = None
             /\ clicked_feature = None

Stages == Ops \cup {"render"}

NoGhosts == /\ outcome = [o \in Ops |-> "none"]
            /\ observed = [o \in Ops |-> "none"]
            /\ prev_outcome = [o \in Ops |-> "none"]
            /\ execs = [st \in Stages |-> <<>>]

AllReadable == [f \in Files |-> TRUE]

localVars == <<available_layers, style_map, color_map, df_stats, selected_layer,
               gdf, map_data, messages>>

\* ---- the layer listing on its own

InitLayers ==
    /\ catalog \in SeqsUpTo(CatalogRows, MaxTables)
    /\ readable \in {[AllReadable EXCEPT !["gpkg"] = b] : b \in BOOLEAN}
    /\ qml_doc = None
    /\ pc = "call"
    /\ run = 0
    /\ NoCache /\ NoLocals /\ NoOutputs /\ NoSession /\ NoGhosts

ListLayers ==
    /\ pc = "call"
    /\ LET r == get_available_layers(readable["gpkg"], catalog)
       IN  /\ available_layers' = r.ret
           /\ messages' = r.msgs
           /\ pc' = IF r.raised THEN "raised" ELSE "returned"
    /\ UNCHANGED <<envVars, cacheVars, sessionVars, ghostVars, outVars, run,
                   style_map, color_map, df_stats, selected_layer, gdf, map_data>>

SpecLayers == InitLayers /\ [][ListLayers]_vars

\* ---- the style parse on its own

InitStyle ==
    /\ qml_doc \in Descriptors
    /\ readable = AllReadable
    /\ catalog = <<>>
    /\ pc = "call"
    /\ run = 0
    /\ NoCache /\ NoLocals /\ NoOutputs /\ NoSession /\ NoGhosts

ParseStyle ==
    /\ pc = "call"
    /\ LET r == parse_qml_style(readable["qml"], qml_doc)
       IN  /\ style_map' = r.ret
           /\ color_map' = IF qml_doc # None THEN ColorMapOf(qml_doc[1]) ELSE <<>>
           /\ messages' = r.msgs
           /\ pc' = IF r.raised THEN "raised" ELSE "returned"
    /\ UNCHANGED <<envVars, cacheVars, sessionVars, ghostVars, outVars, run,
                   available_layers, df_stats, selected_layer, gdf, map_data>>

SpecStyle == InitStyle /\ [][ParseStyle]_vars

\* ---- the map on its own

InitMap ==
    /\ gdf \in {None} \cup {Some(f) : f \in Frames}
    /\ style_map \in StyleMaps({IICN, IIAN}, {LabelNaturalRisk}, {Red, DefaultColor})
    /\ readable = AllReadable /\ catalog = <<>> /\ qml_doc = None
    /\ pc = "call" /\ run = 0
    /\ available_layers = <<>> /\ color_map = <<>> /\ df_stats = None
    /\ selected_layer = None /\ map_data = None /\ messages = <<>>
    /\ NoCache /\ NoOutputs /\ NoSession /\ NoGhosts

CreateMap ==
    /\ pc = "call"
    /\ folium_map' = Some(create_folium_map(gdf, style_map))
    /\ pc' = "returned"
    /\ UNCHANGED <<envVars, cacheVars, sessionVars, ghostVars, localVars, run,
                   legend, charts, panel>>

SpecMap == InitMap /\ [][CreateMap]_vars

\* ---- the legend on its own

InitLegend ==
    /\ style_map \in StyleMaps({IICN, IIAN, IICA}, Labels, {Red})
    /\ readable = AllReadable /\ catalog = <<>> /\ qml_doc = None
    /\ pc = "call" /\ run = 0
    /\ available_layers = <<>> /\ color_map = <<>> /\ df_stats = None
    /\ selected_layer = None /\ gdf = None /\ map_data = None /\ messages = <<>>
    /\ NoCache /\ NoOutputs /\ NoSession /\ NoGhosts

CreateLegend ==
    /\ pc = "call"
    /\ legend' = Some(create_legend(style_map))
    /\ pc' = "returned"
    /\ UNCHANGED <<envVars, cacheVars, sessionVars, ghostVars, localVars, run,
                   folium_map, charts, panel>>

SpecLegend == InitLegend /\ [][CreateLegend]_vars

\* ---- the charts on their own

InitCharts ==
    /\ df_stats \in {None} \cup {Some(t) : t \in Tables}
    /\ style_map \in {<<>>, <<Item(IICN, LabelNaturalRisk, Red)>>}
    /\ readable = AllReadable /\ catalog = <<>> /\ qml_doc = None
    /\ pc = "call" /\ run = 0
    /\ available_layers = <<>> /\ color_map = <<>>
    /\ selected_layer = None /\ gdf = None /\ map_data = None /\ messages = <<>>
    /\ NoCache /\ NoOutputs /\ NoSession /\ NoGhosts

CreateCharts ==
    /\ pc = "call"
    /\ LET r == create_statistics_charts(df_stats, style_map)
       IN  /\ charts' = Some(r.figures)
           /\ messages' = messages \o r.warning
    /\ pc' = "returned"
    /\ UNCHANGED <<envVars, cacheVars, sessionVars, ghostVars, run,
                   available_layers, style_map, color_map, df_stats,
                   selected_layer, gdf, map_data, folium_map, legend, panel>>

SpecCharts == InitCharts /\ [][CreateCharts]_vars

\* ---- the session: script runs, the cache between them, the user, the files

Init ==
    /\ readable \in [Files -> BOOLEAN]
    /\ catalog = GpkgCatalog
    /\ qml_doc = Some(QmlDoc)
    /\ pc = "idle"
    /\ run = 0
    /\ NoCache /\ NoLocals /\ NoOutputs /\ NoSession /\ NoGhosts

Idle == {"idle", "done", "raised"}

\* a script run starts: its names are unbound, the page is cleared
StartRun(choice, popup) ==
    /\ run < MaxRuns
    /\ run' = run + 1
    /\ pc' = "layers"
    /\ widget' = choice
    /\ clicked' = popup
    /\ available_layers' = <<>> /\ style_map' = <<>> /\ color_map' = <<>>
    /\ df_stats' = None /\ selected_layer' = None /\ gdf' = None
    /\ map_data' = None /\ messages' = <<>>
    /\ folium_map' = None /\ legend' = None /\ charts' = None /\ panel' = None
    /\ prev_outcome' = outcome
    /\ outcome' = [o \in Ops |-> "none"]
    /\ observed' = [o \in Ops |-> "none"]
    /\ UNCHANGED <<envVars, cacheVars, execs>>

\* the page is opened or reloaded
Reload ==
    /\ pc \in Idle
    /\ StartRun(widget, clicked)
    /\ UNCHANGED clicked_feature

\* the user picks another layer in the selectbox
SelectLayer ==
    /\ pc \in {"done", "raised"}
    /\ selected_layer # None
    /\ \E i \in 1..Len(available_layers) :
           /\ available_layers[i] # selected_layer[1]
           /\ StartRun(Some(available_layers[i]), clicked)
    /\ UNCHANGED clicked_feature

\* the user clicks a feature of the overlay that has a popup
ClickFeature ==
    /\ pc = "done"
    /\ folium_map # None /\ folium_map[1].overlay # None
    /\ \E i \in 1..Len(folium_map[1].overlay[1].features) :
           LET feature == folium_map[1].overlay[1].features[i]
           IN  /\ feature.popup # None
               /\ StartRun(widget, Some(PopupText(feature.popup[1])))
               /\ clicked_feature' = Some([layer |-> selected_layer[1],
                                            row |-> i, run |-> run + 1])

\* a data file appears or disappears between two runs
FileChange ==
    /\ pc \in Idle
    /\ \E f \in Files : readable' = [readable EXCEPT ![f] = ~@]
    /\ UNCHANGED <<catalog, qml_doc, cacheVars, sessionVars, ghostVars, outVars,
                   localVars, pc, run>>

\* line 412
GetLayers ==
    /\ pc = "layers"
    /\ LET hit == cache_layers # None
           r == IF hit THEN Returned(cache_layers[1].value, cache_layers[1].msgs)
                ELSE get_available_layers(readable["gpkg"], catalog)
       IN  /\ cache_layers' = IF hit \/ r.raised THEN cache_layers ELSE Some(Entry(r))
           /\ available_layers' = IF r.raised THEN available_layers ELSE r.ret
           /\ messages' = messages \o r.msgs
                          \o (IF r.raised THEN <<Traceback["layers"]>> ELSE <<>>)
           /\ pc' = IF r.raised THEN "raised" ELSE "style"
           /\ outcome' = [outcome EXCEPT !["layers"] = How(hit, r)]
           /\ observed' = [observed EXCEPT !["layers"] = Seen(readable["gpkg"])]
           /\ execs' = IF hit THEN execs ELSE [execs EXCEPT !["layers"] = Append(@, <<>>)]
    /\ UNCHANGED <<envVars, cache_style, cache_stats, cache_layer, sessionVars,
                   outVars, run, prev_outcome, style_map, color_map, df_stats,
                   selected_layer, gdf, map_data>>

\* line 417
GetStyle ==
    /\ pc = "style"
    /\ LET hit == cache_style # None
           r == IF hit THEN Returned(cache_style[1].value, cache_style[1].msgs)
                ELSE parse_qml_style(readable["qml"], qml_doc)
       IN  /\ cache_style' = IF hit \/ r.raised THEN cache_style ELSE Some(Entry(r))
           /\ style_map' = IF r.raised THEN style_map ELSE r.ret
           /\ color_map' = IF ~hit /\ readable["qml"] /\ qml_doc # None
                           THEN ColorMapOf(qml_doc[1]) ELSE color_map
           /\ messages' = messages \o r.msgs
                          \o (IF r.raised THEN <<Traceback["style"]>> ELSE <<>>)
           /\ pc' = IF r.raised THEN "raised" ELSE "stats"
           /\ outcome' = [outcome EXCEPT !["style"] = How(hit, r)]
           /\ observed' = [observed EXCEPT !["style"] = Seen(readable["qml"])]
           /\ execs' = IF hit THEN execs ELSE [execs EXCEPT !["style"] = Append(@, <<>>)]
    /\ UNCHANGED <<envVars, cache_layers, cache_stats, cache_layer, sessionVars,
                   outVars, run, prev_outcome, available_layers, df_stats,
                   selected_layer, gdf, map_data>>

\* line 422
GetStatistics ==
    /\ pc = "stats"
    /\ LET hit == cache_stats # None
           r == IF hit THEN Returned(cache_stats[1].value, cache_stats[1].msgs)
                ELSE load_apcac_statistics(readable["csv"], CsvTable)
       IN  /\ cache_stats' = IF hit \/ r.raised THEN cache_stats ELSE Some(Entry(r))
           /\ df_stats' = IF r.raised THEN df_stats ELSE r.ret
           /\ messages' = messages \o r.msgs
                          \o (IF r.raised THEN <<Traceback["stats"]>> ELSE <<>>)
           /\ pc' = IF r.raised THEN "raised" ELSE "select"
           /\ outcome' = [outcome EXCEPT !["stats"] = How(hit, r)]
           /\ observed' = [observed EXCEPT !["stats"] = Seen(readable["csv"])]
           /\ execs' = IF hit THEN execs ELSE [execs EXCEPT !["stats"] = Append(@, <<>>)]
    /\ UNCHANGED <<envVars, cache_layers, cache_style, cache_layer, sessionVars,
                   outVars, run, prev_outcome, available_layers, style_map,
                   color_map, selected_layer, gdf, map_data>>

\* lines 437-459
SelectAndLoad ==
    /\ pc = "select"
    /\ IF available_layers # <<>>
       THEN LET choice == IF widget # None /\ Contains(available_layers, widget[1])
                          THEN widget[1]
                          ELSE DefaultLayer(available_layers)
                hit == \E e \in cache_layer : e.layer_name = choice
                stored == CHOOSE e \in cache_layer : e.layer_name = choice
                r == IF hit THEN Returned(stored.value, stored.msgs)
                     ELSE load_specific_layer(readable["gpkg"], GpkgLayers, choice)
            IN  /\ selected_layer' = Some(choice)
                /\ cache_layer' =
                       IF hit \/ r.raised THEN cache_layer
                       ELSE cache_layer \cup
                            {[layer_name |-> choice, value |-> r.ret, msgs |-> r.msgs]}
                /\ gdf' = IF r.raised THEN gdf ELSE r.ret
                /\ messages' = messages \o r.msgs
                               \o (IF r.raised THEN <<Traceback["layer"]>> ELSE <<>>)
                /\ pc' = IF r.raised THEN "raised" ELSE "legend"
                /\ outcome' = [outcome EXCEPT !["layer"] = How(hit, r)]
                /\ observed' = [observed EXCEPT !["layer"] = Seen(readable["gpkg"])]
                /\ execs' = IF hit THEN execs
                            ELSE [execs EXCEPT !["layer"] = Append(@, choice)]
       ELSE /\ messages' = Append(messages, "Nenhuma camada APCAC encontrada")
            /\ gdf' = None
            /\ pc' = "legend"
            /\ UNCHANGED <<selected_layer, cache_layer, outcome, observed, execs>>
    /\ UNCHANGED <<envVars, cache_layers, cache_style, cache_stats, sessionVars,
                   outVars, run, prev_outcome, available_layers, style_map,
                   color_map, df_stats, map_data>>

\* line 462
Legend ==
    /\ pc = "legend"
    /\ legend' = Some(create_legend(style_map))
    /\ pc' = "map"
    /\ UNCHANGED <<envVars, cacheVars, sessionVars, ghostVars, localVars, run,
                   folium_map, charts, panel>>

\* lines 467-483: the map column; map_data is bound only when there is a layer
MapColumn ==
    /\ pc = "map"
    /\ IF gdf # None
       THEN /\ folium_map' = Some(create_folium_map(gdf, style_map))
            /\ map_data' = Some([last_object_clicked_popup |-> clicked])
            /\ execs' = [execs EXCEPT
                            !["render"] = Append(@, <<selected_layer[1], style_map>>)]
            /\ UNCHANGED messages
       ELSE /\ messages' = Append(messages, "Não foi possível carregar os dados do mapa")
            /\ UNCHANGED <<folium_map, map_data, execs>>
    /\ pc' = "summary"
    /\ UNCHANGED <<envVars, cacheVars, sessionVars, run, outcome, observed,
                   prev_outcome, available_layers, style_map, color_map, df_stats,
                   selected_layer, gdf, legend, charts, panel>>

\* lines 486-513
LayerSummary ==
    /\ pc = "summary"
    /\ panel' = Some([summary |-> Summary(gdf), feature |-> None])
    /\ messages' = IF Summary(gdf) = None
                   THEN Append(messages, "Dados não disponíveis") ELSE messages
    /\ pc' = "attributes"
    /\ UNCHANGED <<envVars, cacheVars, sessionVars, ghostVars, run,
                   available_layers, style_map, color_map, df_stats,
                   selected_layer, gdf, map_data, folium_map, legend, charts>>

\* lines 515-572: reading map_data while it is unbound is an UnboundLocalError
FeatureAttributes ==
    /\ pc = "attributes"
    /\ IF map_data = None
       THEN /\ pc' = "raised"
            /\ messages' = Append(messages, "UnboundLocalError: map_data")
            /\ UNCHANGED panel
       ELSE LET shows == FeaturePanel(map_data[1], gdf, style_map)
            IN  /\ panel' = Some([panel[1] EXCEPT !.feature = shows.shown])
                /\ messages' = messages \o shows.info
                /\ pc' = "statistics"
    /\ UNCHANGED <<envVars, cacheVars, sessionVars, ghostVars, run,
                   available_layers, style_map, color_map, df_stats,
                   selected_layer, gdf, map_data, folium_map, legend, charts>>

\* lines 574-581
StatisticsSection ==
    /\ pc = "statistics"
    /\ IF df_stats # None
       THEN LET r == create_statistics_charts(df_stats, style_map)
            IN  /\ charts' = Some(r.figures)
                /\ messages' = messages \o r.warning
       ELSE /\ messages' = Append(messages, "Estatísticas pré-computadas não disponíveis")
            /\ UNCHANGED charts
    /\ pc' = "footer"
    /\ UNCHANGED <<envVars, cacheVars, sessionVars, ghostVars, run,
                   available_layers, style_map, color_map, df_stats,
                   selected_layer, gdf, map_data, folium_map, legend, panel>>

\* lines 583-592
Footer ==
    /\ pc = "footer"
    /\ pc' = "done"
    /\ UNCHANGED <<envVars, cacheVars, sessionVars, ghostVars, localVars, outVars, run>>

Next ==
    \/ Reload
    \/ SelectLayer
    \/ ClickFeature
    \/ FileChange
    \/ GetLayers
    \/ GetStyle
    \/ GetStatistics
    \/ SelectAndLoad
    \/ Legend
    \/ MapColumn
    \/ LayerSummary
    \/ FeatureAttributes
    \/ StatisticsSection
    \/ Footer

Spec == Init /\ [][Next]_vars

--------------------------------------------------------------------------
(* Claims *)

\* the class-code literal as the specification reads it: the text between
\* the first pair of quotes that follows the column name
LiteralAfterColumn(filter_attr) ==
    IF ~Contains(filter_attr, "cd_apcac") THEN <<>>
    ELSE LET i == CHOOSE k \in 1..Len(filter_attr) :
                      /\ filter_attr[k] = "cd_apcac"
                      /\ \A j \in 1..(k - 1) : filter_attr[j] # "cd_apcac"
             parts == Split(SubSeq(filter_attr, i + 1, Len(filter_attr)), "'")
         IN  IF Len(parts) >= 3 THEN parts[2] ELSE <<>>

\* C1: after a successful parse the keys of the StyleMap are exactly the
\* quoted class-code literals that follow cd_apcac in the rules' filters,
\* each key once, and rules without such a literal add no key.
C1_KeysAreQuotedLiterals ==
    (pc = "returned" /\ qml_doc # None) =>
        /\ Keys(style_map) =
               {LiteralAfterColumn(qml_doc[1].rules[i].filter) :
                    i \in 1..Len(qml_doc[1].rules)} \ {<<>>}
        /\ Cardinality(Keys(style_map)) = Len(style_map)

\* four comma-separated integers, each 0..255
ValidRGBA(v) ==
    LET parts == Split(v, ",")
    IN  /\ Len(parts) = 4
        /\ \A i \in 1..4 : IntOf(parts[i]).ok /\ IntOf(parts[i]).val \in 0..255

TwoHex(n) == <<HexChars[(n \div 16) + 1], HexChars[(n % 16) + 1]>>

RgbHex(v) ==
    LET parts == Split(v, ",")
    IN  <<"#">> \o TwoHex(IntOf(parts[1]).val) \o TwoHex(IntOf(parts[2]).val)
                \o TwoHex(IntOf(parts[3]).val)

\* the symbols whose color value is the one their name ends up with
Colored(symbols) ==
    {i \in 1..Len(symbols) :
        /\ symbols[i].color # None
        /\ symbols[i].color[1] # <<>>
        /\ \A j \in (i + 1)..Len(symbols) :
               symbols[j].name = symbols[i].name =>
                   (symbols[j].color = None \/ symbols[j].color[1] = <<>>)}

\* C2: the color assigned to a symbol is "#" and the two-digit hex of R, G
\* and B when its value is a valid RGBA quadruple, and #808080 for every
\* other (malformed) value.
C2_ColorIsHexOrGray ==
    (pc = "returned" /\ qml_doc # None) =>
        \A i \in Colored(qml_doc[1].symbols) :
            LET symbol == qml_doc[1].symbols[i]
                v == symbol.color[1]
            IN  /\ HasKey(color_map, symbol.name)
                /\ Lookup(color_map, symbol.name) =
                       IF ValidRGBA(v) THEN RgbHex(v) ELSE DefaultColor

ApcacPrefix == <<"a", "p", "c", "a", "c", "_">>
Bho5kSuffix == <<"_", "b", "h", "o", "5", "k">>

HasPrefixNotSuffix(row) ==
    /\ row.type = "table"
    /\ StartsWith(row.name, ApcacPrefix)
    /\ ~EndsWith(row.name, Bho5kSuffix)

\* C3: the layers listed are exactly the table names that start with
\* apcac_ and do not end with _bho5k.
C3_PrefixAndSuffixFilter ==
    (pc = "returned" /\ readable["gpkg"]) =>
        available_layers = Names(SelectSeq(catalog, HasPrefixNotSuffix))

\* the class code of a feature: the value of the layer's class-code column,
\* a miss when the layer has no such column
ClassCode(frame, i) ==
    IF ApcacCol(frame.columns) = None THEN NoValue
    ELSE frame.rows[i][ApcacCol(frame.columns)[1]]

FillFor(code, styles) ==
    IF \E k \in 1..Len(styles) : styles[k].key = code
    THEN styles[CHOOSE k \in 1..Len(styles) : styles[k].key = code].val.color
    ELSE DefaultColor

ClassifiedStyle(code, styles) ==
    [fillColor |-> FillFor(code, styles), color |-> "#333333", weight |-> "0.3",
     fillOpacity |-> "0.6", opacity |-> "0.8"]

\* feature i of the overlay is drawn as a classified feature with this code
DrawnClassified(feature, code, styles) ==
    /\ feature.style = ClassifiedStyle(code, styles)
    /\ feature.tooltip # None /\ Len(feature.tooltip[1]) = 1
    /\ feature.popup # None /\ Len(feature.popup[1]) = 1
    /\ code # NoValue =>
           /\ feature.tooltip[1][1].value = code
           /\ feature.popup[1][1].value = code

MapOfLayer == pc = "returned" /\ gdf # None /\ ~Empty(gdf[1])

Places(categories, code) ==
    UNION {{<<n, k>> : k \in {k \in 1..Len(categories[n]) :
                                 categories[n][k].code = code}} :
              n \in DOMAIN categories}

\* the categories a label may fall in: its predominance, and its risk by
\* the substring "alto risco"
AllowedCategories(label) ==
    LET risk == IF Contains(label, "alto risco") THEN "Alto Risco" ELSE "Sem Risco"
    IN  (IF Contains(label, "Predominância natural")
         THEN {IF risk = "Alto Risco" THEN "Natural - Alto Risco"
               ELSE "Natural - Sem Risco"} ELSE {})
        \cup
        (IF Contains(label, "Predominância antrópica")
         THEN {IF risk = "Alto Risco" THEN "Antrópica - Alto Risco"
               ELSE "Antrópica - Sem Risco"} ELSE {})

\* C9: the legend is a partition of the entries whose label holds a
\* predominance substring: each stands in exactly one of the four fixed
\* categories, of its predominance and risk, and an entry with neither
\* substring stands in none.
C9_LegendPartition ==
    (pc = "returned" /\ style_map # <<>>) =>
        LET categories == legend[1].categories
        IN  /\ DOMAIN categories = {CategoryNames[k] : k \in 1..4}
            /\ \A i \in 1..Len(style_map) :
                   LET places == Places(categories, style_map[i].key)
                       allowed == AllowedCategories(style_map[i].val.label)
                   IN  IF allowed = {} THEN places = {}
                       ELSE /\ Cardinality(places) = 1
                            /\ \A p \in places : p[1] \in allowed

\* a legend of an entry with both predominance substrings and high risk,
\* and of an entry with neither
C9_Witness ==
    /\ pc = "returned"
    /\ Len(style_map) = 2
    /\ Cardinality(AllowedCategories(style_map[1].val.label)) = 2
    /\ AllowedCategories(style_map[2].val.label) = {}
    /\ Len(legend[1].categories["Natural - Alto Risco"]) = 1

RowsWith(rows, code) == {i \in 1..Len(rows) : rows[i]["cd_apcac"] = code}

ChartsOfTable == pc = "returned" /\ df_stats # None /\ df_stats[1] # <<>>

\* C10: each of the four charts has one bar per class code, and the metric
\* of its bars does not increase from the first bar to the last.
C10_BarsDescending ==
    ChartsOfTable =>
        LET rows == df_stats[1]
            codes == {rows[i]["cd_apcac"] : i \in 1..Len(rows)}
        IN  /\ Len(charts[1]) = 4
            /\ \A k \in 1..4 :
                   LET bars == charts[1][k].bars
                   IN  /\ charts[1][k].y = Metrics[k]
                       /\ {bars[i].code : i \in 1..Len(bars)} = codes
                       /\ Len(bars) = Cardinality(codes)
                       /\ \A i \in 1..Len(bars) :
                              \A r \in RowsWith(rows, bars[i].code) :
                                  RowsWith(rows, bars[i].code) = {r} =>
                                      bars[i].total = rows[r][Metrics[k]]
                       /\ \A i, j \in 1..Len(bars) :
                              i < j => bars[i].total >= bars[j].total

\* a table of three classes, one row each, in ascending order of the first
\* metric, whose chart shows them in the opposite order
C10_Witness ==
    /\ ChartsOfTable
    /\ Len(df_stats[1]) = 3
    /\ df_stats[1][1][Metrics[1]] < df_stats[1][2][Metrics[1]]
    /\ df_stats[1][2][Metrics[1]] < df_stats[1][3][Metrics[1]]
    /\ Len(charts[1][1].bars) = 3
    /\ charts[1][1].bars[1].code = df_stats[1][3]["cd_apcac"]
    /\ charts[1][1].bars[3].code = df_stats[1][1]["cd_apcac"]

\* C4: a run whose layer list is empty, or whose layer failed to load, does
\* not raise: with gdf = None main still goes on to the statistics section
\* and the footer.
C4_NoLayerIsNotFatal == pc = "raised" => gdf # None

\* the result of each cached operation in main, and the message of its except
ResultOf(op) ==
    CASE op = "layers" -> available_layers
      [] op = "style" -> style_map
      [] op = "stats" -> df_stats
      [] op = "layer" -> gdf

ErrorText ==
    [layers |-> "Erro ao listar camadas",
     style  |-> "Erro ao carregar estilos QML",
     stats  |-> "Erro ao carregar estatísticas",
     layer  |-> "Erro ao carregar camada"]

\* C5: when the read behind get_available_layers, parse_qml_style,
\* load_apcac_statistics or load_specific_layer fails, the operation reports
\* its message and returns its empty result, and no exception of it reaches
\* main.
C5_FailuresStayLocal ==
    \A op \in Ops :
        outcome[op] = "fail" =>
            /\ ResultOf(op) = None
            /\ Contains(messages, ErrorText[op])
            /\ ~Contains(messages, Traceback[op])

\* the load of the selected layer has failed and main has gone on to the legend
C5_Witness ==
    /\ pc = "legend"
    /\ outcome["layer"] = "fail"
    /\ selected_layer # None
    /\ gdf = None
    /\ Contains(messages, "Erro ao carregar camada")

\* C6: the style parse, the layer listing, the layer load and the composed
\* load -> simplify -> render pipeline each run their body once per argument
\* tuple over all the runs of a session.
C6_EachKeyComputedOnce ==
    \A st \in {"style", "layers", "layer", "render"} :
        \A i, j \in 1..Len(execs[st]) : execs[st][i] = execs[st][j] => i = j

\* C7: a read that failed in the previous run and whose file is readable
\* when this run calls the operation is executed again and gives the data.
C7_NextRunRetries ==
    \A op \in Ops :
        (prev_outcome[op] = "fail" /\ observed[op] = "readable") =>
            (outcome[op] = "ok" /\ ResultOf(op) # None)

\* the auxiliary attributes a popup is to carry after the class code
AuxiliaryAttributes == <<"area", "mean elevation", "mean slope">>

\* what is shown names exactly the class code, under an alias
ShowsOnlyCode(shown, code) ==
    /\ Len(shown) = 1
    /\ shown[1].alias # ""
    /\ code # NoValue => shown[1].value = code

\* what is shown names the class code and then each auxiliary attribute,
\* every field under an alias of its own
ShowsCodeAndAuxiliaries(shown, code) ==
    /\ Len(shown) = 1 + Len(AuxiliaryAttributes)
    /\ code # NoValue => shown[1].value = code
    /\ \A k \in 1..Len(shown) : shown[k].alias # ""
    /\ \A k, l \in 1..Len(shown) : shown[k].alias = shown[l].alias => k = l

\* C11: for every non-empty feature set that has a class-code column, the
\* hover tooltip of every feature of the overlay has exactly one field, the
\* class code, and its click popup has the class code followed by the area,
\* the mean elevation and the mean slope, each under an alias.
C11_TooltipCodePopupAuxiliaries ==
    (MapOfLayer /\ ApcacCol(gdf[1].columns) # None) =>
        LET features == folium_map[1].overlay[1].features
        IN  \A i \in 1..Len(features) :
                /\ features[i].tooltip # None
                /\ ShowsOnlyCode(features[i].tooltip[1], ClassCode(gdf[1], i))
                /\ features[i].popup # None
                /\ ShowsCodeAndAuxiliaries(features[i].popup[1], ClassCode(gdf[1], i))

\* the panel of this run is on the page: the run is past lines 515-572
PanelDrawn == pc \in {"statistics", "footer", "done"}

\* this run is the one started by the click on feature f, and it has loaded
\* the layer of f, whose class code is not empty
RunAfterClickOn(f) ==
    /\ run = f.run
    /\ selected_layer = Some(f.layer)
    /\ gdf # None
    /\ f.row \in 1..Len(gdf[1].rows)
    /\ ApcacCol(gdf[1].columns) # None
    /\ ClassCode(gdf[1], f.row) # NoValue
    /\ Strip(ClassCode(gdf[1], f.row)) # <<>>

\* C12: after a click on a feature f with a non-empty class code, the
\* feature-attribute panel of the following run shows the class code of f
\* and, for every auxiliary attribute it shows, the value f itself has in
\* that column, also when other features of the layer share the code of f.
C12_PanelEchoesClickedFeature ==
    (PanelDrawn /\ clicked_feature # None /\ RunAfterClickOn(clicked_feature[1])) =>
        LET f == clicked_feature[1]
            row == gdf[1].rows[f.row]
        IN  /\ panel # None /\ panel[1].feature # None
            /\ panel[1].feature[1].code = ClassCode(gdf[1], f.row)
            /\ \A k \in 1..Len(panel[1].feature[1].attributes) :
                   LET shown == panel[1].feature[1].attributes[k]
                   IN  shown.value = row[shown.column]

====
